---- MODULE Spec2Model ----
(***************************************************************************)
(* Model of ddg_search.client.Client: the token fetch (_get_vqd), the      *)
(* paginated search generator (asearch) and the downloader (download).     *)
(*                                                                         *)
(* Python strings are sequences of one-character strings, so that          *)
(* str.lower() and str.split() are computed and not assumed.               *)
(* Python None for max_results is encoded as the integer NoneCap.          *)
(***************************************************************************)
EXTENDS Integers, Sequences, FiniteSets, TLC

\* ------------------------------------------------------------------ bounds
MaxRequests == 3      \* page requests explored per generator
MaxPageLen == 2       \* entries in one "results" array
MaxCap == 2           \* largest max_results explored
MaxStrLen == 2        \* length of the enumerated safesearch strings

NoneCap == -1         \* encoding of max_results=None

\* ------------------------------------------------------------- characters
s_on == <<"o", "n">>
s_off == <<"o", "f", "f">>
s_moderate == <<"m", "o", "d", "e", "r", "a", "t", "e">>
s_ON == <<"O", "N">>
s_Off == <<"O", "f", "f">>
s_OFF == <<"O", "F", "F">>
s_Moderate == <<"M", "o", "d", "e", "r", "a", "t", "e">>
s_minus1 == <<"-", "1">>
s_strict == <<"s", "t", "r", "i", "c", "t">>
s_downloaded_image ==
    <<"d","o","w","n","l","o","a","d","e","d","_","i","m","a","g","e">>
s_pic_jpg == <<"p", "i", "c", ".", "j", "p", "g">>
s_a_png == <<"a", ".", "p", "n", "g">>
s_host == <<"h","t","t","p",":","/","/","h","/">>
s_out == <<"o", "u", "t">>

url_pic_query == s_host \o s_pic_jpg \o <<"?","s","i","z","e","=","l","a","r","g","e">>
url_a_png == s_host \o s_a_png
url_dir == s_host
url_only_query == s_host \o <<"?", "q", "=", "1">>
url_two_q == s_host \o s_a_png \o <<"?", "x", "?", "y">>

\* str.lower() on one character (the upper-case letters the model uses)
LowerChar(c) ==
    CASE c = "O" -> "o" [] c = "N" -> "n" [] c = "F" -> "f"
      [] c = "M" -> "m" [] c = "D" -> "d" [] c = "E" -> "e"
      [] c = "R" -> "r" [] c = "A" -> "a" [] c = "T" -> "t"
      [] OTHER -> c

\* str.lower()
Lower(s) == [i \in 1..Len(s) |-> LowerChar(s[i])]

\* index of the first occurrence of character c in s, 0 when there is none
FirstIndex(s, c) ==
    IF \E i \in 1..Len(s) : s[i] = c
    THEN CHOOSE i \in 1..Len(s) : s[i] = c /\ \A j \in 1..(i-1) : s[j] # c
    ELSE 0

RECURSIVE Split(_, _)
\* str.split(c) for a one-character separator: a list of at least one string
Split(s, c) ==
    LET i == FirstIndex(s, c)
    IN IF i = 0 THEN <<s>>
       ELSE <<SubSeq(s, 1, i-1)>> \o Split(SubSeq(s, i+1, Len(s)), c)

\* seq[-1]
Last(seq) == seq[Len(seq)]

\* Python values that are None, a str or a list of str
NoneVal == [t |-> "none", s |-> <<>>, l |-> <<>>]
StrVal(x) == [t |-> "str", s |-> x, l |-> <<>>]
ListVal(x) == [t |-> "list", s |-> <<>>, l |-> x]

\* truth value of a Python value: None, "" and [] are false
Truthy(v) ==
    CASE v.t = "none" -> FALSE
      [] v.t = "str" -> Len(v.s) > 0
      [] v.t = "list" -> Len(v.l) > 0

\* ------------------------------------------------------------- exceptions
\* direct base class of each exception class that can be raised here
ExcParent(c) ==
    CASE c = "ConnectError" -> "TransportError"
      [] c = "ReadError" -> "TransportError"
      [] c = "TransportError" -> "RequestError"
      [] c = "RequestError" -> "HTTPError"
      [] c = "HTTPStatusError" -> "HTTPError"
      [] c = "HTTPError" -> "Exception"
      [] c = "JSONDecodeError" -> "ValueError"
      [] c = "ValueError" -> "Exception"
      [] c = "AttributeError" -> "Exception"
      [] c = "TypeError" -> "Exception"
      [] OTHER -> "BaseException"

RECURSIVE IsInstance(_, _)
\* isinstance(exception of class c, cls)
IsInstance(c, cls) ==
    IF c = cls THEN TRUE
    ELSE IF c = "BaseException" THEN FALSE
    ELSE IsInstance(ExcParent(c), cls)

\* try: <raises c> except cls as e: raise wrapped from e
ExceptAs(c, cls, wrapped) == IF IsInstance(c, cls) THEN wrapped ELSE c

\* what `await client.<request>(); response.raise_for_status()` raises, if
\* anything, for a response kind ("None" when the statement completes)
RequestRaises(kind) ==
    CASE kind = "transport_error" -> "ConnectError"
      [] kind = "status_error" -> "HTTPStatusError"
      [] OTHER -> "None"

\* ------------------------------------------------------------------ state
VARIABLES
    pc,               \* position of the asearch generator
    max_results,      \* argument max_results (NoneCap for None)
    safesearch,       \* argument safesearch
    vqd_resp,         \* kind of the response to the token POST
    p_value,          \* local p_value
    results_yielded,  \* local results_yielded
    offset,           \* local offset
    data,             \* the response whose results are being iterated
    idx,              \* 1-based position of the for loop in data's results
    requests,         \* GETs issued to /i.js: parameters s and p of each
    pages,            \* responses received, one per request
    yielded,          \* values yielded so far: <<page number, position>>
    error,            \* exception that ended the generator ("None" if none)
    dl_pc,            \* "idle" until download() has been called, then "done"
    dl_args,          \* the arguments and response of the download() call
    dl_filename,      \* local filename when os.path.join is reached
    dl_error,         \* exception raised by download() ("None" if none)
    dl_path           \* path of the file opened for writing (<<>> if none)

vars == <<pc, max_results, safesearch, vqd_resp, p_value, results_yielded,
          offset, data, idx, requests, pages, yielded, error,
          dl_pc, dl_args, dl_filename, dl_error, dl_path>>

searchVars == <<pc, max_results, safesearch, vqd_resp, p_value,
                results_yielded, offset, data, idx, requests, pages,
                yielded, error>>

dlVars == <<dl_pc, dl_args, dl_filename, dl_error, dl_path>>

\* ----------------------------------------------------------------- inputs
RECURSIVE SeqsUpTo(_, _)
\* all sequences over S of length at most n
SeqsUpTo(S, n) ==
    IF n = 0 THEN {<<>>}
    ELSE LET shorter == SeqsUpTo(S, n - 1)
         IN shorter \cup {Append(q, x) : q \in shorter, x \in S}

\* an entry of a results array: accepted or rejected by
\* ImageResult.model_validate
EntryKinds == {"valid", "invalid"}

NoResults == [present |-> FALSE, items |-> <<>>]

\* the responses a GET to /i.js can meet
ObjectResponses ==
    {[kind |-> "json_object", results |-> [present |-> TRUE, items |-> it],
      next |-> nx] : it \in SeqsUpTo(EntryKinds, MaxPageLen), nx \in BOOLEAN}
    \cup {[kind |-> "json_object", results |-> NoResults, next |-> nx] :
          nx \in BOOLEAN}

FailedResponses ==
    {[kind |-> k, results |-> NoResults, next |-> FALSE] :
     k \in {"transport_error", "status_error", "non_json", "json_non_object"}}

Responses == ObjectResponses \cup FailedResponses

VqdResponses == {"transport_error", "status_error", "no_match", "ok"}

Caps == {NoneCap} \cup 0..MaxCap

SampleSafesearch == {s_minus1, s_ON}

SafesearchStrings ==
    SeqsUpTo({"o", "n", "O", "N"}, MaxStrLen)
    \cup {s_on, s_off, s_moderate, s_ON, s_Off, s_OFF, s_Moderate,
          s_minus1, s_strict}

EmptyResponse == [kind |-> "none", results |-> NoResults, next |-> FALSE]

NoDownload == [url |-> <<>>, output_dir |-> <<>>, filename |-> NoneVal,
               resp |-> "none"]

InitWith(caps, strings) ==
    /\ pc = "created"
    /\ max_results \in caps
    /\ safesearch \in strings
    /\ vqd_resp = "none"
    /\ p_value = "unset"
    /\ results_yielded = 0
    /\ offset = 0
    /\ data = EmptyResponse
    /\ idx = 0
    /\ requests = <<>>
    /\ pages = <<>>
    /\ yielded = <<>>
    /\ error = "None"
    /\ dl_pc = "idle"
    /\ dl_args = NoDownload
    /\ dl_filename = NoneVal
    /\ dl_error = "None"
    /\ dl_path = <<>>

Init == InitWith(Caps, SampleSafesearch)

InitSafe == InitWith({1}, SafesearchStrings)

\* ---------------------------------------------------------------- asearch
\* safesearch_map.get(safesearch.lower(), "-1")
PValueNoLower(s) ==
    CASE s = s_on -> "1"
      [] s = s_moderate -> "-1"
      [] s = s_off -> "-2"
      [] OTHER -> "-1"

PValue(s) ==
    LET k == Lower(s)
    IN CASE k = s_on -> "1"
         [] k = s_moderate -> "-1"
         [] k = s_off -> "-2"
         [] OTHER -> "-1"

\* _get_vqd: the exception it raises for a response kind, "None" on success
GetVqdRaises(kind) ==
    LET exc == RequestRaises(kind)
    IN IF exc # "None" THEN ExceptAs(exc, "RequestError", "NetworkError")
       ELSE IF kind = "no_match" THEN "VQDTokenError"
       ELSE "None"

\* first step of the generator: token fetch and initialisation
GetVqd ==
    /\ pc = "created"
    /\ dl_pc = "idle"
    /\ \E r \in VqdResponses :
         /\ vqd_resp' = r
         /\ error' = GetVqdRaises(r)
         /\ IF GetVqdRaises(r) # "None"
            THEN /\ pc' = "raised"
                 /\ UNCHANGED <<p_value, results_yielded, offset>>
            ELSE /\ pc' = "request"
                 /\ results_yielded' = 0
                 /\ offset' = 0
                 /\ p_value' = PValue(safesearch)
    /\ UNCHANGED <<max_results, safesearch, data, idx, requests, pages,
                   yielded>>
    /\ UNCHANGED dlVars

\* the exception a page request raises for a response, "None" when the
\* response decodes to an object
PageRaises(resp) ==
    LET exc == RequestRaises(resp.kind)
    IN IF exc # "None" THEN ExceptAs(exc, "RequestError", "NetworkError")
       ELSE IF resp.kind = "non_json"
            THEN ExceptAs("JSONDecodeError", "Exception", "ParsingError")
       ELSE IF resp.kind = "json_non_object" THEN "AttributeError"
       ELSE "None"

\* position of the generator after a page request raised
AfterPageErrorRetry == "request"

AfterPageError == "raised"

\* `not results`
ResultsFalsy(resp) == ~resp.results.present \/ Len(resp.results.items) = 0

\* one iteration of `while True` up to the for loop
PageRequest ==
    /\ pc = "request"
    /\ Len(requests) < MaxRequests
    /\ \E resp \in Responses :
         /\ requests' = Append(requests, [s |-> offset, p |-> p_value])
         /\ pages' = Append(pages, resp)
         /\ data' = resp
         /\ error' = PageRaises(resp)
         /\ IF PageRaises(resp) # "None"
            THEN pc' = AfterPageError /\ idx' = idx
            ELSE IF ResultsFalsy(resp)
            THEN pc' = "done" /\ idx' = idx
            ELSE pc' = "for" /\ idx' = 1
    /\ UNCHANGED <<max_results, safesearch, vqd_resp, p_value,
                   results_yielded, offset, yielded>>
    /\ UNCHANGED dlVars

\* max_results is not None and results_yielded >= max_results
CapReachedOffByOne(n, cap) == cap # NoneCap /\ n > cap

CapReached(n, cap) == cap # NoneCap /\ n >= cap

\* results_yielded after an entry was rejected and skipped
CountAfterSkipCounted(n) == n + 1

CountAfterSkip(n) == n

\* one iteration of `for res in results`, up to the yield or the continue
NextEntry ==
    /\ pc = "for"
    /\ idx <= Len(data.results.items)
    /\ IF CapReached(results_yielded, max_results)
       THEN /\ pc' = "done"
            /\ UNCHANGED <<idx, yielded, results_yielded>>
       ELSE IF data.results.items[idx] = "valid"
       THEN /\ yielded' = Append(yielded, <<Len(pages), idx>>)
            /\ pc' = "yield"
            /\ UNCHANGED <<idx, results_yielded>>
       ELSE /\ idx' = idx + 1
            /\ results_yielded' = CountAfterSkip(results_yielded)
            /\ UNCHANGED <<pc, yielded>>
    /\ UNCHANGED <<max_results, safesearch, vqd_resp, p_value, offset, data,
                   requests, pages, error>>
    /\ UNCHANGED dlVars

\* the consumer asks for the next value: the generator resumes after yield
Resume ==
    /\ pc = "yield"
    /\ results_yielded' = results_yielded + 1
    /\ idx' = idx + 1
    /\ pc' = "for"
    /\ UNCHANGED <<max_results, safesearch, vqd_resp, p_value, offset, data,
                   requests, pages, yielded, error>>
    /\ UNCHANGED dlVars

\* the consumer abandons the generator while it is suspended at the yield
Close ==
    /\ pc = "yield"
    /\ pc' = "closed"
    /\ UNCHANGED <<max_results, safesearch, vqd_resp, p_value,
                   results_yielded, offset, data, idx, requests, pages,
                   yielded, error>>
    /\ UNCHANGED dlVars

\* "next" in data
HasNextAlways(resp) == TRUE

HasNext(resp) == resp.next

\* offset += len(results)
NextOffsetValidOnly(o, items) ==
    o + Cardinality({i \in 1..Len(items) : items[i] = "valid"})

NextOffset(o, items) == o + Len(items)

\* the for loop is exhausted: the test for a next page and the new offset
EndOfPage ==
    /\ pc = "for"
    /\ idx > Len(data.results.items)
    /\ IF ~HasNext(data)
       THEN pc' = "done" /\ offset' = offset
       ELSE pc' = "request" /\ offset' = NextOffset(offset, data.results.items)
    /\ UNCHANGED <<max_results, safesearch, vqd_resp, p_value,
                   results_yielded, data, idx, requests, pages, yielded,
                   error>>
    /\ UNCHANGED dlVars

\* --------------------------------------------------------------- download
\* os.path.join(a, b) for two str arguments
PathJoin(a, b) ==
    IF Len(b) > 0 /\ b[1] = "/" THEN b
    ELSE IF Len(a) = 0 \/ a[Len(a)] = "/" THEN a \o b
    ELSE a \o <<"/">> \o b

\* local filename after the `if not filename:` block
DerivedFilename(url, filename) ==
    IF ~Truthy(filename)
    THEN LET derived == ListVal(Split(Last(Split(url, "/")), "?"))
         IN IF ~Truthy(derived) THEN StrVal(s_downloaded_image)
            ELSE derived
    ELSE filename

\* what the `async with ... stream("GET", url)` block raises for a response
StreamRaises(kind) ==
    CASE kind = "transport_error" -> "ConnectError"
      [] kind = "status_error" -> "HTTPStatusError"
      [] kind = "read_error" -> "ReadError"
      [] OTHER -> "None"

DownloadUrls == {url_pic_query, url_a_png, url_dir, url_only_query, url_two_q}

DownloadFilenames == {NoneVal, StrVal(<<>>), StrVal(s_a_png)}

DownloadResponses == {"ok", "transport_error", "status_error", "read_error"}

\* download(url, output_dir, filename)
Download ==
    /\ dl_pc = "idle"
    /\ pc = "created"
    /\ \E url \in DownloadUrls, fn \in DownloadFilenames,
          resp \in DownloadResponses :
         LET name == DerivedFilename(url, fn)
             exc == StreamRaises(resp)
         IN /\ dl_args' = [url |-> url, output_dir |-> s_out,
                           filename |-> fn, resp |-> resp]
            /\ dl_filename' = name
            /\ IF name.t # "str"
               THEN \* os.path.join rejects a non-str component
                    /\ dl_error' = "TypeError"
                    /\ dl_path' = <<>>
               ELSE /\ dl_error' =
                         IF exc = "None" THEN "None"
                         ELSE ExceptAs(exc, "RequestError", "NetworkError")
                    /\ dl_path' =
                         IF resp \in {"ok", "read_error"}
                         THEN PathJoin(s_out, name.s)
                         ELSE <<>>
    /\ dl_pc' = "done"
    /\ UNCHANGED searchVars

Next ==
    \/ GetVqd
    \/ PageRequest
    \/ NextEntry
    \/ Resume
    \/ Close
    \/ EndOfPage
    \/ Download

Spec == Init /\ [][Next]_vars

SpecSafe == InitSafe /\ [][Next]_vars

\* ---------------------------------------------------------------- helpers
RECURSIVE SumLens(_)
\* number of entries, valid or not, in the results arrays of pages 1..k
SumLens(k) ==
    IF k = 0 THEN 0 ELSE SumLens(k - 1) + Len(pages[k].results.items)

\* the valid entries of page k, in the order of its results array
RECURSIVE ValidOfPage(_, _)
ValidOfPage(k, i) ==
    IF i > Len(pages[k].results.items) THEN <<>>
    ELSE (IF pages[k].results.items[i] = "valid" THEN << <<k, i>> >> ELSE <<>>)
         \o ValidOfPage(k, i + 1)

RECURSIVE ValidFrom(_)
\* the valid entries of pages k.. in provider order
ValidFrom(k) ==
    IF k > Len(pages) THEN <<>> ELSE ValidOfPage(k, 1) \o ValidFrom(k + 1)

Take(seq, n) == IF Len(seq) <= n THEN seq ELSE SubSeq(seq, 1, n)

\* the valid entries of the fetched pages, cut to the cap when there is one
Expected ==
    IF max_results = NoneCap THEN ValidFrom(1)
    ELSE Take(ValidFrom(1), max_results)

IsPrefix(a, b) == Len(a) <= Len(b) /\ a = SubSeq(b, 1, Len(a))

\* a page that lets the generator go on: results present and non-empty,
\* and a next indicator
Continuable(resp) ==
    /\ resp.kind = "json_object"
    /\ resp.results.present
    /\ Len(resp.results.items) > 0
    /\ resp.next

\* ----------------------------------------------------------------- claims
\* C1: with max_results = N >= 0 the generator has never yielded more than
\* N values, whatever pages the provider returns.
C1_AtMostMaxResults == max_results >= 0 => Len(yielded) <= max_results

C1_Witness ==
    /\ max_results > 0
    /\ Len(yielded) = max_results
    /\ pc = "done"
    /\ Len(ValidFrom(1)) > max_results

\* C2: once the number of yielded values has reached max_results, no
\* further GET is issued to the search endpoint (max_results = 0 and a cap
\* reached on the last entry of a page with a next indicator included).
C2_NoRequestAfterCap ==
    [][(max_results # NoneCap /\ Len(yielded) >= max_results)
       => requests' = requests]_vars

\* C3: a non-success HTTP status is raised as NetworkError by the token
\* fetch, by a search page request and by download.
C3_StatusIsNetworkError ==
    /\ (vqd_resp = "status_error" => error = "NetworkError")
    /\ (pages # <<>> /\ Last(pages).kind = "status_error"
        => error = "NetworkError")
    /\ (dl_pc = "done" /\ dl_args.resp = "status_error"
        /\ dl_args.filename.t = "str" /\ Len(dl_args.filename.s) > 0
        => dl_error = "NetworkError")

\* the file name the documentation derives from a URL
DefaultName(url) ==
    LET seg == Head(Split(Last(Split(url, "/")), "?"))
    IN IF seg = <<>> THEN s_downloaded_image ELSE seg

\* C4: download without a filename writes <output_dir>/<name>, name being
\* the last segment of the URL without its query, or "downloaded_image".
C4_DefaultFilename ==
    (dl_pc = "done" /\ dl_args.filename.t = "none" /\ dl_args.resp = "ok")
    => /\ dl_error = "None"
       /\ dl_path = dl_args.output_dir \o <<"/">> \o DefaultName(dl_args.url)

\* C5: an entry that fails validation is skipped: no error, not yielded,
\* not counted; a run that ends without failure has yielded exactly the
\* valid entries of the fetched pages, in order, cut to max_results.
C5_InvalidSkipped ==
    /\ [](IsPrefix(yielded, ValidFrom(1)))
    /\ [](pc = "done" => error = "None" /\ yielded = Expected)
    /\ [][(/\ pc = "for"
           /\ idx <= Len(data.results.items)
           /\ (max_results = NoneCap \/ results_yielded < max_results)
           /\ data.results.items[idx] = "invalid")
          => (/\ pc' = "for"
              /\ idx' = idx + 1
              /\ error' = "None"
              /\ yielded' = yielded
              /\ results_yielded' = results_yielded)]_vars

C5_Witness ==
    /\ pc = "done"
    /\ max_results = 2
    /\ Len(pages) = 2
    /\ pages[1].results.items = <<"invalid", "valid">>
    /\ pages[2].results.items = <<"valid", "valid">>
    /\ yielded = << <<1, 2>>, <<2, 1>> >>

\* C6: after a page request has failed, no further request is issued and
\* nothing more is yielded.
C6_FailureEndsGenerator ==
    [][(requests # <<>> /\ error # "None")
       => (requests' = requests /\ yielded' = yielded /\ pc' = "raised")]_vars

C6_Witness ==
    /\ pc = "raised"
    /\ error \in {"NetworkError", "ParsingError"}
    /\ Len(requests) = 2
    /\ yielded # <<>>

\* C7: a page body that is not JSON, or is JSON but not an object, makes
\* asearch fail with ParsingError.
C7_MalformedIsParsingError ==
    (pages # <<>> /\ Last(pages).kind \in {"non_json", "json_non_object"})
    => error = "ParsingError"

\* the table of the documentation, applied to a string as given
TableCode(s) ==
    CASE s = s_on -> "1"
      [] s = s_moderate -> "-1"
      [] s = s_off -> "-2"
      [] OTHER -> "-1"

\* C8 as stated: parameter p is 1 for "on", -1 for "moderate", -2 for "off"
\* and -1 for every other string, "ON" and "Off" included.
C8_ExactStringTable ==
    \A k \in 1..Len(requests) : requests[k].p = TableCode(safesearch)

\* C8 amended: parameter p of every page request is the table's code for
\* the lower-cased safesearch argument.
C8_LowercasedTable ==
    \A k \in 1..Len(requests) : requests[k].p = TableCode(Lower(safesearch))

C8_Witness ==
    /\ safesearch = s_Off
    /\ Len(requests) = 2
    /\ requests[2].p = "-2"

\* C9: the first page request has offset 0, the k-th has the number of
\* entries of pages 1..k-1, and offsets strictly increase.
C9_OffsetIsEntriesSeen ==
    \A k \in 1..Len(requests) :
        /\ requests[k].s = SumLens(k - 1)
        /\ k > 1 => requests[k].s > requests[k - 1].s

C9_Witness ==
    /\ Len(requests) = 3
    /\ requests[1].s = 0
    /\ requests[2].s = 2
    /\ requests[3].s = 3
    /\ pages[1].results.items = <<"invalid", "valid">>

\* C10: a further page request follows only a page with present, non-empty
\* results and a next indicator; a page with absent or empty results, or
\* without a next indicator, ends the sequence normally.
C10_NextPageOnlyAfterNext ==
    /\ \A k \in 2..Len(requests) : Continuable(pages[k - 1])
    /\ (pc = "request" /\ pages # <<>>) => Continuable(Last(pages))
    /\ (pages # <<>> /\ Last(pages).kind = "json_object"
        /\ Len(Last(pages).results.items) = 0)
       => /\ pc = "done"
          /\ error = "None"
          /\ \A i \in 1..Len(yielded) : yielded[i][1] # Len(pages)
    /\ (pages # <<>> /\ Last(pages).kind = "json_object"
        /\ Len(Last(pages).results.items) > 0 /\ ~Last(pages).next)
       => /\ pc \in {"for", "yield", "closed", "done"}
          /\ error = "None"
          /\ pc = "done" => yielded = Expected

C10_Witness ==
    /\ pc = "done"
    /\ Len(requests) = 2
    /\ ~Last(pages).next
    /\ Last(pages).results.items = <<"valid", "invalid">>
    /\ max_results = NoneCap
    /\ Len(yielded) = 2

====
